---- MODULE Spec2Model ----
(***************************************************************************)
(* A model of wallet-connect-button-react: the process-wide credentials    *)
(* cache behind fetchRequestedCredentials, the useSearchParams store over  *)
(* the page URL, the WalletConnectButton widget (mount effect,             *)
(* session_token effect, success handler, render), host resolution and     *)
(* deep-link construction, and the insertion of the requested credentials  *)
(* into the shadow DOM of the wallet element after a click.                *)
(*                                                                         *)
(* JavaScript runs one task at a time: an action is one task (an event     *)
(* handler, a network completion, a React commit) together with the        *)
(* promise continuations it makes runnable, which the event loop runs      *)
(* before any other task.                                                  *)
(***************************************************************************)
EXTENDS Integers, Sequences, FiniteSets, TLC

\* ------------------------------------------------------------------ bounds
MaxCalls == 3
MaxReq == 2
MaxClicks == 2

\* ------------------------------------------------------------ value spaces
\* cache keys `${clientId}-${walletConnectHost}`
Keys == {"abc-https://wallet-connect.eu", "xyz-https://wallet-connect.eu"}
\* requested-credential lists (a credential is named by its credentialKey)
CredLists == {<< >>, <<"pid">>, <<"pid", "kvk">>}
\* response bodies: requestedCredentials present or missing
Responses == {[has |-> FALSE, creds |-> << >>]} \cup {[has |-> TRUE, creds |-> l] : l \in CredLists}
Errors == {"Network Error", "Request failed with status code 500"}
CallIds == 1..MaxCalls

VARIABLES
    credentialsCache,   \* Map<string, {data?, promise?}>
    promises,           \* the fetchPromise objects, by creation order
    nReqs,              \* number of fetchPromise objects created
    netCalls,           \* axios.get invocations for requested-credentials, per key
    calls,              \* the invocations of fetchRequestedCredentials
    nCalls,             \* number of invocations so far
    lastFailed          \* history: the last settled request of the key was rejected

cacheVars == <<credentialsCache, promises, nReqs, netCalls, calls, nCalls, lastFailed>>

VARIABLES
    url,            \* the query of window.location.href
    searchParams,   \* the hook's state: a URLSearchParams, as its list of pairs
    hist            \* history: the last store operation and the pairs before it

storeVars == <<url, searchParams, hist>>

VARIABLES
    mounted,        \* "no" before the first render, "yes", "gone" after unmount
    loading,        \* useState(false)
    error,          \* useState<string | null>(null)
    shown,          \* what the last commit put in the DOM
    dirty,          \* a state update waits for its render
    effectDue,      \* searchParams or onSuccess changed since the session effect ran
    element,        \* buttonRef.current: the nl-wallet-button in the DOM, 0 for null
    nElems,         \* number of nl-wallet-button elements created so far
    listeners,      \* <<element, event>> pairs with the widget's listener attached
    loadState,      \* the dynamic import of nl-wallet-web.js
    dreqs,          \* the disclosed-attributes requests, by creation order
    successLog,     \* history: the calls of onSuccess, in order
    lastEvent       \* history: the success event the last task handled, or the
                    \* request it settled, with its nonce and the error message it got

widgetVars == <<mounted, loading, error, shown, dirty, effectDue, element,
                nElems, listeners, loadState, dreqs, successLog, lastEvent>>

VARIABLES
    props,          \* what the caller passes to <WalletConnectButton ...>
    links           \* lines 132-135: walletConnectHost, sameDeviceUl, crossDeviceUl

linkVars == <<props, links>>

VARIABLES
    shadow,         \* inside the shadow root of the nl-wallet-button: the modal, the display blocks
    retries,        \* the pending 200ms timers of injectCredentialsIntoShadowDOM
    fired           \* the handler invocations whose 100ms timer has fired

domVars == <<shadow, retries, fired>>

vars == <<cacheVars, storeVars, widgetVars, linkVars, domVars>>

\* ------------------------------------------------------- credentials cache
Absent == [kind |-> "absent", data |-> << >>, promise |-> 0]
DataEntry(d) == [kind |-> "data", data |-> d, promise |-> 0]
PromiseEntry(p) == [kind |-> "promise", data |-> << >>, promise |-> p]

NoPromise == [key |-> "", st |-> "unused", val |-> << >>, err |-> ""]
NoCall == [key |-> "", path |-> "none", st |-> "none", val |-> << >>, err |-> "",
           req |-> 0, hasApiKey |-> FALSE, hasClientId |-> FALSE,
           sawPending |-> 0, afterFail |-> FALSE]

\* if (!apiKey || !clientId) return [];
ShortCircuit_NoClientCheck(hasApiKey, hasClientId) == ~hasApiKey
ShortCircuit(hasApiKey, hasClientId) == ~hasApiKey \/ ~hasClientId

\* if (cached?.data): an array, also an empty one, is truthy
HasData_NonEmpty(cached) == cached.kind = "data" /\ Len(cached.data) > 0
HasData(cached) == cached.kind = "data"

\* if (cached?.promise)
HasPromise(cached) == cached.kind = "promise"

\* response.data?.data?.requestedCredentials || []
Extract(resp) == IF resp.has THEN resp.creds ELSE << >>

\* credentialsCache.set(cacheKey, { data: credentials })
CacheSetData(cache, k, d) == [cache EXCEPT ![k] = DataEntry(d)]

\* credentialsCache.delete(cacheKey)
CacheDelete_Keep(cache, k) == cache
CacheDelete(cache, k) == [cache EXCEPT ![k] = Absent]

\* credentialsCache.set(cacheKey, { promise: fetchPromise })
Publish_Skip(cache, k, p) == cache
Publish(cache, k, p) == [cache EXCEPT ![k] = PromiseEntry(p)]

HasDataEntry(k) == credentialsCache[k].kind = "data"

\* the request of key k that is in flight (0: none)
PendingOf(k) ==
    IF \E p \in 1..nReqs : promises[p].key = k /\ promises[p].st = "pending"
    THEN CHOOSE p \in 1..nReqs : promises[p].key = k /\ promises[p].st = "pending"
    ELSE 0

\* the continuation of `await promise` for every caller suspended on p
Deliver(cs, p, st, val, err) ==
    [c \in CallIds |->
        IF cs[c].st = "waiting" /\ cs[c].req = p
        THEN [cs[c] EXCEPT !.st = st, !.val = val, !.err = err]
        ELSE cs[c]]

\* fetchRequestedCredentials, up to its first suspension, the request returning a promise
Call(k, hasApiKey, hasClientId) ==
    /\ nCalls < MaxCalls
    /\ nCalls' = nCalls + 1
    /\ LET c == nCalls + 1
           cached == credentialsCache[k]
           base == [NoCall EXCEPT !.key = k, !.hasApiKey = hasApiKey,
                                  !.hasClientId = hasClientId,
                                  !.sawPending = PendingOf(k),
                                  !.afterFail = lastFailed[k]]
       IN
       IF ShortCircuit(hasApiKey, hasClientId) THEN
            /\ calls' = [calls EXCEPT ![c] = [base EXCEPT !.path = "short", !.st = "returned",
                                                          !.afterFail = FALSE]]
            /\ UNCHANGED <<credentialsCache, promises, nReqs, netCalls, lastFailed>>
       ELSE IF HasData(cached) THEN
            /\ calls' = [calls EXCEPT ![c] = [base EXCEPT !.path = "hit", !.st = "returned",
                                                          !.val = cached.data]]
            /\ lastFailed' = [lastFailed EXCEPT ![k] = FALSE]
            /\ UNCHANGED <<credentialsCache, promises, nReqs, netCalls>>
       ELSE IF HasPromise(cached) THEN
            /\ LET p == cached.promise IN
               calls' = [calls EXCEPT ![c] =
                    IF promises[p].st = "pending"
                    THEN [base EXCEPT !.path = "join", !.st = "waiting", !.req = p]
                    ELSE [base EXCEPT !.path = "join", !.st = promises[p].st, !.req = p,
                                      !.val = promises[p].val, !.err = promises[p].err]]
            /\ lastFailed' = [lastFailed EXCEPT ![k] = FALSE]
            /\ UNCHANGED <<credentialsCache, promises, nReqs, netCalls>>
       ELSE
            /\ nReqs' = nReqs + 1
            /\ netCalls' = [netCalls EXCEPT ![k] = @ + 1]
            /\ promises' = [promises EXCEPT ![nReqs + 1] = [NoPromise EXCEPT !.key = k, !.st = "pending"]]
            /\ credentialsCache' = Publish(credentialsCache, k, nReqs + 1)
            /\ calls' = [calls EXCEPT ![c] = [base EXCEPT !.path = "fetch", !.st = "waiting",
                                                          !.req = nReqs + 1]]
            /\ lastFailed' = [lastFailed EXCEPT ![k] = FALSE]
    /\ UNCHANGED <<storeVars, widgetVars, linkVars, domVars>>

\* fetchRequestedCredentials when the expression axios.get(...) itself throws: the
\* catch block runs before line 207 publishes the promise, which is already rejected
CallThrows(k, e) ==
    /\ nCalls < MaxCalls
    /\ ~HasData(credentialsCache[k])
    /\ ~HasPromise(credentialsCache[k])
    /\ nCalls' = nCalls + 1
    /\ nReqs' = nReqs + 1
    /\ netCalls' = [netCalls EXCEPT ![k] = @ + 1]
    /\ promises' = [promises EXCEPT ![nReqs + 1] = [NoPromise EXCEPT !.key = k, !.st = "rejected", !.err = e]]
    /\ credentialsCache' = Publish(CacheDelete(credentialsCache, k), k, nReqs + 1)
    /\ calls' = [calls EXCEPT ![nCalls + 1] =
            [NoCall EXCEPT !.key = k, !.path = "fetch", !.st = "rejected", !.err = e,
                           !.req = nReqs + 1, !.hasApiKey = TRUE, !.hasClientId = TRUE,
                           !.sawPending = PendingOf(k),
                           !.afterFail = lastFailed[k]]]
    /\ lastFailed' = [lastFailed EXCEPT ![k] = TRUE]
    /\ UNCHANGED <<storeVars, widgetVars, linkVars, domVars>>

\* the request of fetchPromise p succeeds: lines 194-198, then the awaiting callers
NetResolve(p, resp) ==
    /\ p \in 1..nReqs
    /\ promises[p].st = "pending"
    /\ LET k == promises[p].key
           credentials == Extract(resp)
       IN
       /\ credentialsCache' = CacheSetData(credentialsCache, k, credentials)
       /\ promises' = [promises EXCEPT ![p].st = "returned", ![p].val = credentials]
       /\ calls' = Deliver(calls, p, "returned", credentials, "")
       /\ lastFailed' = [lastFailed EXCEPT ![k] = FALSE]
    /\ UNCHANGED <<nReqs, netCalls, nCalls>>
    /\ UNCHANGED <<storeVars, widgetVars, linkVars, domVars>>

\* the request of fetchPromise p fails: lines 199-203, then the awaiting callers
NetReject(p, e) ==
    /\ p \in 1..nReqs
    /\ promises[p].st = "pending"
    /\ LET k == promises[p].key IN
       /\ credentialsCache' = CacheDelete(credentialsCache, k)
       /\ promises' = [promises EXCEPT ![p].st = "rejected", ![p].err = e]
       /\ calls' = Deliver(calls, p, "rejected", << >>, e)
       /\ lastFailed' = [lastFailed EXCEPT ![k] = TRUE]
    /\ UNCHANGED <<nReqs, netCalls, nCalls>>
    /\ UNCHANGED <<storeVars, widgetVars, linkVars, domVars>>

\* ------------------------------------------------- query-parameter store
\* The query of window.location is a sequence of name=value entries; `canon`
\* tells whether the entry is spelled the way URLSearchParams serializes it
\* ("a=b+c", "a=") or another way that parses to the same pair ("a=b%20c", "a").
MaxQuery == 2
ParamKeys == {"session_token", "nonce", "lang"}
ParamVals == {"", "tok1", "tok2"}
RawEntries == [k : ParamKeys, v : ParamVals, canon : BOOLEAN]
RawQueries(n) == UNION {[1..m -> RawEntries] : m \in 0..n}
\* the queries of the other entries of the session history
HistoryQueries == {q \in RawQueries(1) : \A i \in 1..Len(q) : q[i].k = "session_token"}

\* new URLSearchParams(search): the list of decoded (name, value) pairs
Parse(q) == [i \in 1..Len(q) |-> <<q[i].k, q[i].v>>]

\* url.toString(): the pairs in application/x-www-form-urlencoded spelling
Serialize(ps) == [i \in 1..Len(ps) |-> [k |-> ps[i][1], v |-> ps[i][2], canon |-> TRUE]]

Has(ps, k) == \E i \in 1..Len(ps) : ps[i][1] = k
First(ps, k) == CHOOSE i \in 1..Len(ps) : ps[i][1] = k /\ \A j \in 1..(i - 1) : ps[j][1] # k

\* URLSearchParams.get: the first value of the name, or null
NoValue == "<null>"
Get(ps, k) == IF Has(ps, k) THEN ps[First(ps, k)][2] ELSE NoValue

\* URLSearchParams.delete: every pair of the name goes
SpDelete_Nothing(ps, k) == ps
SpDelete(ps, k) == SelectSeq(ps, LAMBDA e : e[1] # k)

\* URLSearchParams.set: the first pair of the name takes the value, the others go;
\* a new name is appended
SpSet_Fresh(ps, k, v) == << <<k, v>> >>
SpSet(ps, k, v) ==
    IF Has(ps, k)
    THEN LET f == First(ps, k) IN
         SubSeq(ps, 1, f - 1) \o << <<k, v>> >> \o SpDelete(SubSeq(ps, f + 1, Len(ps)), k)
    ELSE Append(ps, <<k, v>>)

\* setSearchParams({[k]: v}): the URL handed to history.replaceState
SetUrl(q, k, v) == Serialize(SpSet(Parse(q), k, v))
\* setSearchParams: the value handed to setSearchParamsState
SetView(q, k, v) == Parse(SetUrl(q, k, v))

\* removeSearchParam(k): the URL handed to history.replaceState
RemoveUrl(q, k) == Serialize(SpDelete(Parse(q), k))
\* removeSearchParam: the value handed to setSearchParamsState
RemoveView_Stale(q, k) == Parse(q)
RemoveView(q, k) == Parse(RemoveUrl(q, k))

\* handlePopState: the value handed to setSearchParamsState
PopView(q) == Parse(q)

PairSet(ps) == {ps[i] : i \in 1..Len(ps)}
NoHist == [op |-> "none", key |-> "", had |-> FALSE, setBefore |-> << >>]

StoreSet(k, v) ==
    /\ url' = SetUrl(url, k, v)
    /\ searchParams' = SetView(url, k, v)
    /\ hist' = [op |-> "set", key |-> k, had |-> Has(Parse(url), k), setBefore |-> Parse(url)]
    /\ UNCHANGED <<cacheVars, widgetVars, linkVars, domVars>>

StoreRemove(k) ==
    /\ url' = RemoveUrl(url, k)
    /\ searchParams' = RemoveView(url, k)
    /\ hist' = [op |-> IF hist.op = "set" /\ hist.key = k THEN "setremove" ELSE "remove",
                key |-> k, had |-> Has(Parse(url), k),
                setBefore |-> IF hist.op = "set" /\ hist.key = k THEN hist.setBefore ELSE << >>]
    /\ UNCHANGED <<cacheVars, widgetVars, linkVars, domVars>>

\* back/forward navigation to a history entry whose query is q: the popstate listener
PopState(q) ==
    /\ url' = q
    /\ searchParams' = PopView(q)
    /\ hist' = [NoHist EXCEPT !.op = "popstate"]
    /\ UNCHANGED <<cacheVars, widgetVars, linkVars, domVars>>

\* history.replaceState by another store instance of the page: no popstate is fired
OtherInstanceReplace(k, v) ==
    /\ url' = SetUrl(url, k, v)
    /\ UNCHANGED searchParams
    /\ hist' = [NoHist EXCEPT !.op = "other"]
    /\ UNCHANGED <<cacheVars, widgetVars, linkVars, domVars>>

\* ------------------------------------------------------------ the widget
Events == {"success", "failed", "click"}
\* event.detail of a success event: [session_token, session_type], or less, or more
SuccessDetails ==
    {<< >>, <<"tok1">>, <<"tok1", "same_device">>, <<"tok1", "other">>,
     <<"tok1", "cross_device">>, <<"tok2", "cross_device", "x">>}
\* error.message of a rejected request
RequestErrors == {"Network Error"}
\* error.message of what onSuccess throws; NoValue: it returns
ThrowMessages == {"", "callback failed"}
\* the page URLs a wallet redirect leaves: ?session_token=..&nonce=..
WidgetQueries ==
    {<< >>}
    \cup {<<[k |-> "session_token", v |-> t, canon |-> TRUE]>> : t \in {"", "tok1"}}
    \cup {<<[k |-> "session_token", v |-> "tok1", canon |-> TRUE],
            [k |-> "nonce", v |-> n, canon |-> TRUE]>> : n \in {"", "tok2"}}
\* the queries of the history entries the page can go back or forward to
NavQueries == {<< >>, <<[k |-> "session_token", v |-> "tok1", canon |-> FALSE]>>}

NoEvent == [on |-> FALSE, d |-> << >>, r |-> 0, nonce |-> NoValue, msg |-> NoValue]

\* JavaScript truthiness of a string | null
Truthy(v) == v # NoValue /\ v # ""

\* the response body of /api/disclosed-attributes for a session token
Payload(t) == [attributes |-> t]

\* lines 358-394: what the component returns
Render_ErrorFirst(l, e) == IF Truthy(e) THEN "error" ELSE IF l THEN "checking" ELSE "button"
Render(l, e) == IF l THEN "checking" ELSE IF Truthy(e) THEN "error" ELSE "button"

\* handleSuccess: detail && detail.length > 1 && detail[1] === "cross_device"
WritesToken_AnyType(d) == Len(d) > 1
WritesToken(d) == Len(d) > 1 /\ d[2] = "cross_device"

\* the session_token effect, lines 325-356, when `run` says its dependencies changed;
\* `first` and `early` are history: the effect of the first render, and a request
\* started while no request had settled
SessionEffect(sp, first, run) ==
    IF run /\ Truthy(Get(sp, "session_token"))
    THEN /\ Len(dreqs) < MaxReq
         /\ loading' = TRUE
         /\ dirty' = ~loading
         /\ dreqs' = Append(dreqs, [st |-> "pending", token |-> Get(sp, "session_token"),
                                    nonce |-> Get(sp, "nonce"), atMount |-> first,
                                    early |-> \A i \in 1..Len(dreqs) : dreqs[i].st = "pending"])
    ELSE /\ dirty' = FALSE
         /\ UNCHANGED <<loading, dreqs>>

\* a render of the component and its commit: the DOM, the ref, then the effect
RenderCommit(sp, first, run) ==
    /\ shown' = Render(loading, error)
    /\ element' = IF shown' # "button" THEN 0 ELSE IF shown = "button" THEN element ELSE nElems + 1
    /\ nElems' = IF shown' = "button" /\ shown # "button" THEN nElems + 1 ELSE nElems
    /\ SessionEffect(sp, first, run)
    /\ effectDue' = FALSE

\* the first render: useState initializers, then both effects
Mount ==
    /\ mounted = "no"
    /\ mounted' = "yes"
    /\ searchParams' = Parse(url)
    /\ RenderCommit(Parse(url), TRUE, TRUE)
    /\ loadState' = "importing"
    /\ lastEvent' = NoEvent
    /\ UNCHANGED <<url, hist, error, listeners, successLog, cacheVars, linkVars, domVars>>

\* the re-render React schedules after a state update
Commit ==
    /\ mounted = "yes"
    /\ dirty \/ effectDue
    /\ RenderCommit(searchParams, FALSE, effectDue)
    /\ lastEvent' = NoEvent
    /\ UNCHANGED <<mounted, error, listeners, loadState, successLog,
                   storeVars, cacheVars, linkVars, domVars>>

\* the parent renders again and passes a new onSuccess function (an inline arrow is a
\* new function at every render), so the effect's dependencies have changed
ParentRerender ==
    /\ mounted = "yes"
    /\ RenderCommit(searchParams, FALSE, TRUE)
    /\ lastEvent' = NoEvent
    /\ UNCHANGED <<mounted, error, listeners, loadState, successLog, storeVars, cacheVars, linkVars, domVars>>

\* loadWebComponent after `await import(...)`: lines 142-151
LoadDone ==
    /\ loadState = "importing"
    /\ loadState' = "done"
    /\ listeners' = IF element # 0 THEN listeners \cup {<<element, ev>> : ev \in Events}
                    ELSE listeners
    /\ lastEvent' = NoEvent
    /\ UNCHANGED <<mounted, loading, error, shown, dirty, effectDue, element,
                   nElems, dreqs, successLog, storeVars, cacheVars, linkVars, domVars>>

\* the import fails: lines 152-154
LoadFail ==
    /\ loadState = "importing"
    /\ loadState' = "failed"
    /\ lastEvent' = NoEvent
    /\ UNCHANGED <<mounted, loading, error, shown, dirty, effectDue, element,
                   nElems, listeners, dreqs, successLog, storeVars, cacheVars, linkVars, domVars>>

\* the cleanup of the mount effect, lines 160-167, reading buttonRef.current as `seen`
CleanupListeners_None(seen) == listeners
CleanupListeners(seen) ==
    IF seen # 0 THEN listeners \ {<<seen, ev>> : ev \in Events} ELSE listeners

\* React removes the component. It detaches the ref of the removed element and runs
\* the effect's cleanup; the cleanup of a passive effect runs after the detachment
\* (React 17 and later) or before it (React 16), so it reads null or the element.
Unmount ==
    /\ mounted = "yes"
    /\ mounted' = "gone"
    /\ \E seen \in {element, 0} : listeners' = CleanupListeners(seen)
    /\ element' = 0
    /\ shown' = "none"
    /\ dirty' = FALSE
    /\ effectDue' = FALSE
    /\ lastEvent' = NoEvent
    /\ UNCHANGED <<loading, error, nElems, loadState, dreqs, successLog,
                   storeVars, cacheVars, linkVars, domVars>>

\* handleSuccess, lines 306-318, for a success event of the displayed element
SuccessEvent(d) ==
    /\ mounted = "yes"
    /\ element # 0
    /\ <<element, "success">> \in listeners
    /\ IF WritesToken(d)
       THEN /\ url' = SetUrl(url, "session_token", d[1])
            /\ searchParams' = SetView(url, "session_token", d[1])
            /\ effectDue' = TRUE
       ELSE UNCHANGED <<url, searchParams, effectDue>>
    /\ lastEvent' = [NoEvent EXCEPT !.on = TRUE, !.d = d]
    /\ UNCHANGED <<hist, mounted, loading, error, shown, dirty, element,
                   nElems, listeners, loadState, dreqs, successLog, cacheVars, linkVars, domVars>>

\* handleFailed, lines 320-323: logs
FailedEvent ==
    /\ mounted = "yes"
    /\ element # 0
    /\ <<element, "failed">> \in listeners
    /\ lastEvent' = NoEvent
    /\ UNCHANGED <<mounted, loading, error, shown, dirty, effectDue, element,
                   nElems, listeners, loadState, dreqs, successLog, storeVars, cacheVars, linkVars, domVars>>

\* removeSearchParam('session_token'); if (nonce) removeSearchParam('nonce'): the URL
CleanedUrl_KeepNonce(q, nonce) == RemoveUrl(q, "session_token")
CleanedUrl(q, nonce) ==
    IF Truthy(nonce) THEN RemoveUrl(RemoveUrl(q, "session_token"), "nonce")
    ELSE RemoveUrl(q, "session_token")
\* the same two calls: the value the last one hands to setSearchParamsState
CleanedView(q, nonce) ==
    IF Truthy(nonce) THEN RemoveView(RemoveUrl(q, "session_token"), "nonce")
    ELSE RemoveView(q, "session_token")

\* lines 325-356: the effect returns no cleanup, so unmounting cancels no request
Cancelled_OnUnmount(m) == m = "gone"
Cancelled(m) == FALSE

\* the recorded error after the callbacks: only .catch calls setError (line 350)
ErrorAfter_ClearedOnSuccess(st, e, msg) == IF st = "ok" THEN NoValue ELSE msg
ErrorAfter(st, e, msg) == IF st = "ok" THEN e ELSE msg

\* the callbacks of request r, lines 339-355; setState of an unmounted component
\* does nothing. The nonce the callbacks captured is not read again after them.
Settle(r, st, called, msg) ==
    /\ r \in 1..Len(dreqs)
    /\ dreqs[r].st = "pending"
    /\ ~Cancelled(mounted)
    /\ dreqs' = [dreqs EXCEPT ![r].st = st, ![r].nonce = NoValue]
    /\ successLog' = IF called
                     THEN Append(successLog, [r |-> r, data |-> Payload(dreqs[r].token)])
                     ELSE successLog
    /\ url' = CleanedUrl(url, dreqs[r].nonce)
    /\ IF mounted = "yes"
       THEN /\ searchParams' = CleanedView(url, dreqs[r].nonce)
            /\ effectDue' = TRUE
            /\ error' = ErrorAfter(st, error, msg)
            /\ loading' = FALSE
            /\ dirty' = TRUE
       ELSE UNCHANGED <<searchParams, effectDue, error, loading, dirty>>
    /\ lastEvent' = [NoEvent EXCEPT !.r = r, !.nonce = dreqs[r].nonce, !.msg = msg]
    /\ UNCHANGED <<hist, mounted, shown, element, nElems, listeners,
                   loadState, cacheVars, linkVars, domVars>>

\* the request succeeds and onSuccess returns
DisclosedResolve(r) == Settle(r, "ok", TRUE, NoValue)
\* the request succeeds and onSuccess throws: the .catch callback runs
OnSuccessThrows(r, msg) == Settle(r, "threw", TRUE, msg)
\* the request fails: the .catch callback runs
DisclosedReject(r, msg) == Settle(r, "failed", FALSE, msg)

\* back/forward navigation of the page that holds the widget: handlePopState
Navigate(q) ==
    /\ mounted = "yes"
    /\ url' = q
    /\ searchParams' = PopView(q)
    /\ effectDue' = TRUE
    /\ lastEvent' = NoEvent
    /\ UNCHANGED <<hist, mounted, loading, error, shown, dirty, element,
                   nElems, listeners, loadState, dreqs, successLog, cacheVars, linkVars, domVars>>

\* ------------------------------------------------------ hosts and deep links
\* A text is the sequence of its pieces: a piece is one character that
\* encodeURIComponent escapes, or a run of characters it leaves alone.
RECURSIVE Text(_)
Text(s) == IF s = << >> THEN "" ELSE Head(s) \o Text(Tail(s))

\* clientId values: identifiers, and one holding a query delimiter
ClientIds == {<<"abc">>, <<"my-client">>, <<"kvk_1">>, <<"a", "&", "b">>}
\* the walletConnectHost attribute of the README's usage example; NoValue: not passed
HostProps == {NoValue, "https://wallet-connect.eu", "https://example.org"}
PropsSpace ==
    [clientId : ClientIds, useLocalWcServer : BOOLEAN, business : BOOLEAN,
     issuance : BOOLEAN, walletConnectHost : HostProps]
NoLinks == [host |-> << >>, sameDeviceUl |-> << >>, crossDeviceUl |-> << >>]

\* lines 93-109
getDefaultHost_NoBusiness(useLocalWcServer, business, issuance) ==
    IF useLocalWcServer
    THEN IF issuance THEN <<"http", ":", "/", "/", "localhost", ":", "3007">>
                     ELSE <<"http", ":", "/", "/", "localhost", ":", "3021">>
    ELSE IF issuance THEN <<"https", ":", "/", "/", "issuance", ".", "wallet-connect", ".", "eu">>
                     ELSE <<"https", ":", "/", "/", "wallet-connect", ".", "eu">>
getDefaultHost(useLocalWcServer, business, issuance) ==
    IF useLocalWcServer
    THEN IF business
         THEN IF issuance THEN <<"http", ":", "/", "/", "localhost", ":", "4007">>
                          ELSE <<"http", ":", "/", "/", "bw", ".", "localhost", ":", "3021">>
         ELSE IF issuance THEN <<"http", ":", "/", "/", "localhost", ":", "3007">>
                          ELSE <<"http", ":", "/", "/", "localhost", ":", "3021">>
    ELSE IF business
         THEN IF issuance
              THEN <<"https", ":", "/", "/", "bw", ".", "issuance", ".", "wallet-connect", ".", "eu">>
              ELSE <<"https", ":", "/", "/", "bw", ".", "wallet-connect", ".", "eu">>
         ELSE IF issuance
              THEN <<"https", ":", "/", "/", "issuance", ".", "wallet-connect", ".", "eu">>
              ELSE <<"https", ":", "/", "/", "wallet-connect", ".", "eu">>

\* encodeURIComponent, on the characters these texts hold
Escape(c) ==
    CASE c = ":" -> "%3A" [] c = "/" -> "%2F" [] c = "?" -> "%3F"
      [] c = "=" -> "%3D" [] c = "&" -> "%26" [] OTHER -> c
encodeURIComponent_None(s) == s
encodeURIComponent(s) == [i \in 1..Len(s) |-> Escape(s[i])]

\* lines 111-123
constructURI(clientId, session_type, walletConnectHost, business) ==
    LET request_uri ==
            walletConnectHost \o <<"/", "disclosure", "/">> \o clientId
                \o <<"/", "request_uri", "?", "session_type", "=", session_type>>
        request_uri_method == "post"
        client_id_uri == clientId \o <<".example.com">>
        deepLinkScheme ==
            IF business
            THEN <<"businesswalletdebuginteraction", ":", "/", "/", "wallet.kvk.rijksoverheid.nl">>
            ELSE <<"walletdebuginteraction", ":", "/", "/", "wallet.edi.rijksoverheid.nl">>
    IN  deepLinkScheme \o <<"/", "disclosure_based_issuance", "?", "request_uri", "=">>
            \o encodeURIComponent(request_uri)
            \o <<"&", "request_uri_method", "=", request_uri_method, "&", "client_id", "=">>
            \o client_id_uri

\* lines 125-135: the destructured props (walletConnectHost is not one of
\* them), the resolved host and the two deep links
LinksOf(p) ==
    LET walletConnectHost == getDefaultHost(p.useLocalWcServer, p.business, p.issuance)
    IN  [host |-> walletConnectHost,
         sameDeviceUl |-> constructURI(p.clientId, "same_device", walletConnectHost, p.business),
         crossDeviceUl |-> constructURI(p.clientId, "cross_device", walletConnectHost, p.business)]

\* a render of the component with the props it has
RenderLinks ==
    /\ links = NoLinks
    /\ links' = LinksOf(props)
    /\ UNCHANGED <<props, cacheVars, storeVars, widgetVars, domVars>>

\* the parent renders the component with other props
NewProps(p) ==
    /\ links # NoLinks
    /\ p # props
    /\ props' = p
    /\ links' = LinksOf(p)
    /\ UNCHANGED <<cacheVars, storeVars, widgetVars, domVars>>

\* ------------------------------------------- credentials in the shadow DOM
\* line 213
maxRetries == 10
\* the cache key of the widget that is clicked
ClickKeys == {"abc-https://wallet-connect.eu"}
\* the responses to its requested-credentials request
ClickResponses == {[has |-> FALSE, creds |-> << >>], [has |-> TRUE, creds |-> <<"pid", "kvk">>]}
NoModal == [modal |-> FALSE, blocks |-> 0]

\* walletButton.shadowRoot: the element has one once nl-wallet-web.js has defined it
HasShadowRoot == loadState = "done"

\* lines 221-224: querySelector('.required-credentials') and remove()
RemoveExisting_Skip(blocks) == blocks
RemoveExisting(blocks) == IF blocks > 0 THEN blocks - 1 ELSE 0

\* line 232
MayRetry_Always(retryCount) == TRUE
MayRetry(retryCount) == retryCount < maxRetries

\* injectCredentialsIntoShadowDOM(credentials, retryCount) for the credentials of
\* handler invocation c, lines 212-288; `pending` are the timers that stay
injectCredentialsIntoShadowDOM(c, retryCount, pending) ==
    IF element = 0 \/ ~HasShadowRoot
    THEN /\ shadow' = shadow
         /\ retries' = pending
    ELSE IF Len(calls[c].val) = 0
    THEN /\ shadow' = [shadow EXCEPT !.blocks = RemoveExisting(@)]
         /\ retries' = pending
    ELSE IF ~shadow.modal
    THEN /\ shadow' = [shadow EXCEPT !.blocks = RemoveExisting(@)]
         /\ retries' = IF MayRetry(retryCount)
                       THEN pending \cup {[c |-> c, n |-> retryCount + 1]}
                       ELSE pending
    ELSE /\ shadow' = [shadow EXCEPT !.blocks = RemoveExisting(@) + 1]
         /\ retries' = pending

\* handleButtonClick up to its await, lines 290-292: one invocation, by the native
\* click listener or by the onClick of the element (a click runs both)
handleButtonClick(k, hasApiKey) ==
    /\ mounted = "yes"
    /\ element # 0
    /\ nCalls < MaxClicks
    /\ Call(k, hasApiKey, TRUE)

\* lines 294-299 have set the 100ms timer of invocation c and it has not fired
StartPending(c) ==
    /\ c \in 1..nCalls
    /\ calls[c].st = "returned"
    /\ Len(calls[c].val) > 0
    /\ c \notin fired

\* the 100ms timer of lines 296-298 fires
StartTimerFires(c) ==
    /\ StartPending(c)
    /\ fired' = fired \cup {c}
    /\ injectCredentialsIntoShadowDOM(c, 0, retries)
    /\ UNCHANGED <<cacheVars, storeVars, widgetVars, linkVars>>

\* a 200ms timer of lines 233-235 fires
RetryTimerFires(t) ==
    /\ t \in retries
    /\ injectCredentialsIntoShadowDOM(t.c, t.n, retries \ {t})
    /\ UNCHANGED <<fired, cacheVars, storeVars, widgetVars, linkVars>>

\* the web component renders its modal (.modal) into the shadow root
ModalOpens ==
    /\ mounted = "yes"
    /\ element # 0
    /\ HasShadowRoot
    /\ ~shadow.modal
    /\ shadow' = [shadow EXCEPT !.modal = TRUE]
    /\ UNCHANGED <<retries, fired, cacheVars, storeVars, widgetVars, linkVars>>

\* the web component removes its modal, and the display block inside it
ModalCloses ==
    /\ shadow.modal
    /\ shadow' = NoModal
    /\ UNCHANGED <<retries, fired, cacheVars, storeVars, widgetVars, linkVars>>

\* ---------------------------------------------------------- specifications
\* no call of fetchRequestedCredentials has been made
CacheIdle ==
    /\ credentialsCache = [k \in Keys |-> Absent]
    /\ promises = [p \in CallIds |-> NoPromise]
    /\ nReqs = 0
    /\ netCalls = [k \in Keys |-> 0]
    /\ calls = [c \in CallIds |-> NoCall]
    /\ nCalls = 0
    /\ lastFailed = [k \in Keys |-> FALSE]

\* no widget has been rendered
WidgetIdle ==
    /\ mounted = "no"
    /\ loading = FALSE
    /\ error = NoValue
    /\ shown = "none"
    /\ dirty = FALSE
    /\ effectDue = FALSE
    /\ element = 0
    /\ nElems = 0
    /\ listeners = {}
    /\ loadState = "idle"
    /\ dreqs = << >>
    /\ successLog = << >>
    /\ lastEvent = NoEvent

\* no render has computed links; no click has reached the shadow DOM
PageIdle ==
    /\ props = [clientId |-> <<"abc">>, useLocalWcServer |-> FALSE, business |-> FALSE,
                issuance |-> FALSE, walletConnectHost |-> NoValue]
    /\ links = NoLinks
    /\ shadow = NoModal
    /\ retries = {}
    /\ fired = {}

InitCache ==
    /\ CacheIdle
    /\ PageIdle
    /\ url = << >>
    /\ searchParams = << >>
    /\ hist = NoHist
    /\ WidgetIdle

NextCache ==
    \/ \E k \in Keys, a \in BOOLEAN, c \in BOOLEAN : Call(k, a, c)
    \/ \E k \in Keys, e \in Errors : CallThrows(k, e)
    \/ \E p \in CallIds, r \in Responses : NetResolve(p, r)
    \/ \E p \in CallIds, e \in Errors : NetReject(p, e)

SpecCache == InitCache /\ [][NextCache]_vars

\* a store instance over any page URL
InitStore ==
    /\ url \in RawQueries(MaxQuery)
    /\ searchParams = Parse(url)
    /\ hist = NoHist
    /\ CacheIdle
    /\ WidgetIdle
    /\ PageIdle

NextStore ==
    \/ \E k \in ParamKeys, v \in ParamVals : StoreSet(k, v)
    \/ \E k \in ParamKeys : StoreRemove(k)
    \/ \E q \in HistoryQueries : PopState(q)
    \/ \E k \in ParamKeys : OtherInstanceReplace(k, "tok2")

SpecStore == InitStore /\ [][NextStore]_vars

\* a page about to render one widget
InitWidget ==
    /\ url \in WidgetQueries
    /\ searchParams = << >>
    /\ hist = NoHist
    /\ CacheIdle
    /\ WidgetIdle
    /\ PageIdle

NextWidget ==
    \/ Mount
    \/ Commit
    \/ ParentRerender
    \/ LoadDone
    \/ LoadFail
    \/ Unmount
    \/ \E d \in SuccessDetails : SuccessEvent(d)
    \/ FailedEvent
    \/ \E r \in 1..MaxReq : DisclosedResolve(r)
    \/ \E r \in 1..MaxReq, m \in ThrowMessages : OnSuccessThrows(r, m)
    \/ \E r \in 1..MaxReq, m \in RequestErrors : DisclosedReject(r, m)
    \/ \E q \in NavQueries : Navigate(q)

SpecWidget == InitWidget /\ [][NextWidget]_vars

\* a component about to be rendered with the three flags left at their defaults
InitLinks ==
    /\ props \in {p \in PropsSpace : ~p.useLocalWcServer /\ ~p.business /\ ~p.issuance}
    /\ links = NoLinks
    /\ shadow = NoModal
    /\ retries = {}
    /\ fired = {}
    /\ url = << >>
    /\ searchParams = << >>
    /\ hist = NoHist
    /\ CacheIdle
    /\ WidgetIdle

NextLinks ==
    \/ RenderLinks
    \/ \E p \in PropsSpace : NewProps(p)

SpecLinks == InitLinks /\ [][NextLinks]_vars

\* a widget displaying its wallet element while nl-wallet-web.js loads
InitInject ==
    /\ mounted = "yes"
    /\ shown = "button"
    /\ element = 1
    /\ nElems = 1
    /\ loadState = "importing"
    /\ loading = FALSE
    /\ error = NoValue
    /\ dirty = FALSE
    /\ effectDue = FALSE
    /\ listeners = {}
    /\ dreqs = << >>
    /\ successLog = << >>
    /\ lastEvent = NoEvent
    /\ url = << >>
    /\ searchParams = << >>
    /\ hist = NoHist
    /\ CacheIdle
    /\ PageIdle

NextInject ==
    \/ LoadDone
    \/ LoadFail
    \/ Unmount
    \/ \E k \in ClickKeys, a \in BOOLEAN : handleButtonClick(k, a)
    \/ \E p \in CallIds, r \in ClickResponses : NetResolve(p, r)
    \/ \E p \in CallIds : NetReject(p, "Network Error")
    \/ \E c \in CallIds : StartTimerFires(c)
    \/ \E c \in CallIds, n \in 1..maxRetries : RetryTimerFires([c |-> c, n |-> n])
    \/ ModalOpens
    \/ ModalCloses

\* timers that are due fire
SpecInject ==
    /\ InitInject
    /\ [][NextInject]_vars
    /\ WF_vars(\E c \in CallIds : StartTimerFires(c))
    /\ WF_vars(\E c \in CallIds, n \in 1..maxRetries : RetryTimerFires([c |-> c, n |-> n]))

\* ------------------------------------------------------------ cache claims
Started == 1..nCalls
UsesCache(c) == calls[c].path \in {"hit", "join", "fetch"}
Settled(c) == calls[c].st \in {"returned", "rejected"}
SameOutcome(c, p) ==
    /\ calls[c].st = promises[p].st
    /\ calls[c].val = promises[p].val
    /\ calls[c].err = promises[p].err

\* C1: a call for a key started while a request of that key is in flight issues no
\* request and is attached to that one; at most one request per key is in flight;
\* every request is issued by exactly one call, and every caller attached to a
\* request receives that request's outcome (its list, or its rejection).
C1_OneRequestSharedOutcome ==
    /\ \A k \in Keys :
          Cardinality({p \in 1..nReqs : promises[p].key = k /\ promises[p].st = "pending"}) <= 1
    /\ \A k \in Keys : netCalls[k] = Cardinality({p \in 1..nReqs : promises[p].key = k})
    /\ \A p \in 1..nReqs :
          Cardinality({c \in Started : calls[c].path = "fetch" /\ calls[c].req = p}) = 1
    /\ \A c \in Started :
          /\ (UsesCache(c) /\ calls[c].sawPending # 0) =>
                (calls[c].path = "join" /\ calls[c].req = calls[c].sawPending)
          /\ (calls[c].path \in {"join", "fetch"} /\ Settled(c)) => SameOutcome(c, calls[c].req)
          /\ (calls[c].st = "waiting") => promises[calls[c].req].st = "pending"

\* three concurrent callers of one key, one request, one shared non-empty list
C1_Witness ==
    \E k \in Keys :
        /\ netCalls[k] = 1
        /\ \A c \in CallIds :
              /\ calls[c].key = k
              /\ calls[c].path \in {"join", "fetch"}
              /\ calls[c].st = "returned"
              /\ calls[c].val = <<"pid", "kvk">>

\* C2: after a failed request the entry of its key is absent, and the next call
\* that reaches the cache for that key issues a new request.
C2_FailureEvictsAndRetries ==
    /\ \A k \in Keys : lastFailed[k] => credentialsCache[k] = Absent
    /\ \A c \in Started : calls[c].afterFail => (calls[c].path = "fetch" /\ calls[c].sawPending = 0)

\* C3: a resolved entry is never evicted or replaced, no request is issued for its
\* key, and a call that reaches the cache for that key returns the stored list.
C3_ResolvedEntryIsFinal ==
    [][\A k \in Keys :
          HasDataEntry(k) =>
              /\ credentialsCache'[k] = credentialsCache[k]
              /\ netCalls'[k] = netCalls[k]
              /\ (/\ nCalls' = nCalls + 1
                  /\ calls'[nCalls + 1].key = k
                  /\ calls'[nCalls + 1].hasApiKey
                  /\ calls'[nCalls + 1].hasClientId) =>
                    /\ calls'[nCalls + 1].st = "returned"
                    /\ calls'[nCalls + 1].val = credentialsCache[k].data
                    /\ calls'[nCalls + 1].req = 0]_vars

\* a later call returned a stored empty list
C3_Witness ==
    \E c \in Started :
        /\ calls[c].path = "hit"
        /\ calls[c].val = << >>
        /\ credentialsCache[calls[c].key] = DataEntry(<< >>)

\* C4: a call without apiKey or without clientId returns the empty list, issues no
\* request and leaves the cache as it was.
C4_ShortCircuitFrame ==
    [][(/\ nCalls' = nCalls + 1
        /\ (~calls'[nCalls + 1].hasApiKey \/ ~calls'[nCalls + 1].hasClientId)) =>
            /\ calls'[nCalls + 1].st = "returned"
            /\ calls'[nCalls + 1].val = << >>
            /\ credentialsCache' = credentialsCache
            /\ netCalls' = netCalls
            /\ promises' = promises]_vars

\* a short-circuited call for a key whose entry is in flight, beside a resolved one
C4_Witness ==
    \E c \in Started :
        /\ calls[c].path = "short"
        /\ calls[c].hasApiKey
        /\ ~calls[c].hasClientId
        /\ credentialsCache[calls[c].key].kind = "promise"
        /\ \E k \in Keys : credentialsCache[k].kind = "data"

\* ------------------------------------------------------------ store claims
\* C9: after every set, remove and back/forward navigation of a store instance its
\* view holds the query parameters of the page URL.
C9_ViewIsUrlQuery ==
    hist.op \in {"set", "remove", "setremove", "popstate"} => searchParams = Parse(url)

\* a remove that left the view in step with a URL of two names, after another
\* instance had rewritten the URL
C9_Witness ==
    /\ hist.op = "remove"
    /\ Len(url) = 2
    /\ searchParams = Parse(url)
    /\ hist.had

\* C10 as claimed: set(key, value) then remove(key) leaves the URL with exactly the
\* pairs it had before the set.
C10_RoundTripRestoresAll ==
    hist.op = "setremove" => PairSet(Parse(url)) = PairSet(hist.setBefore)

\* C10 amended: set(key, value) then remove(key) leaves the URL with the pairs of
\* the other names it had before the set, in their order; all of them when the
\* name was absent before the set.
C10_RoundTripKeepsOtherNames ==
    hist.op = "setremove" =>
        /\ Parse(url) = SelectSeq(hist.setBefore, LAMBDA e : e[1] # hist.key)
        /\ ~Has(hist.setBefore, hist.key) => Parse(url) = hist.setBefore

\* a round trip over a URL that held another name and not the one set
C10_Witness ==
    /\ hist.op = "setremove"
    /\ Len(hist.setBefore) = 2
    /\ ~Has(hist.setBefore, hist.key)
    /\ Parse(url) = hist.setBefore

\* ----------------------------------------------------------- widget claims
Requests == 1..Len(dreqs)
\* the calls of onSuccess made for the requests in R
CallsFor(R) == {i \in 1..Len(successLog) : successLog[i].r \in R}
\* the requests for the token the URL carried at mount that were started before
\* any request settled
MountTokenRequests ==
    {r \in Requests : dreqs[1].atMount /\ dreqs[r].early /\ dreqs[r].token = dreqs[1].token}

\* C5 as claimed: mounted with a session_token, once a request for it has succeeded
\* onSuccess has been called exactly once with the payload of that token, whatever
\* re-renders happened before the request resolved, and after a request resolves
\* the URL holds no session_token.
C5_OnSuccessExactlyOnce ==
    /\ (\E r \in MountTokenRequests : dreqs[r].st = "ok") =>
          /\ Cardinality(CallsFor(MountTokenRequests)) = 1
          /\ \A i \in CallsFor(MountTokenRequests) : successLog[i].data = Payload(dreqs[1].token)
    /\ (lastEvent.r # 0 /\ dreqs[lastEvent.r].st = "ok") => ~Has(Parse(url), "session_token")

C7_NoListenerAfterUnmount ==
    mounted = "gone" => listeners = {}

\* C8: a handled success event writes its token into the URL and the view when its
\* detail has at least two elements and the second is cross_device; any other
\* leaves URL, view and widget state as they were and starts no request.
C8_OnlyCrossDeviceWrites ==
    [][lastEvent'.on =>
          LET d == lastEvent'.d IN
          IF Len(d) >= 2 /\ d[2] = "cross_device"
          THEN /\ Get(Parse(url'), "session_token") = d[1]
               /\ searchParams' = Parse(url')
               /\ dreqs' = dreqs
          ELSE /\ url' = url
               /\ searchParams' = searchParams
               /\ dreqs' = dreqs
               /\ effectDue' = effectDue
               /\ loading' = loading]_vars

\* a cross_device event has put its token in place of the one the URL held
C8_Witness ==
    /\ lastEvent.on
    /\ lastEvent.d = <<"tok2", "cross_device", "x">>
    /\ Get(searchParams, "session_token") = "tok2"
    /\ Len(url) = 1
    /\ Len(dreqs) = 0

\* -------------------------------------------------------------- link claims
\* what a consumer of a link reads from it: the query after the first "?", cut at
\* each "&", each part cut at its first "=", the value percent-decoded
Unescape(c) ==
    CASE c = "%3A" -> ":" [] c = "%2F" -> "/" [] c = "%3F" -> "?"
      [] c = "%3D" -> "=" [] c = "%26" -> "&" [] OTHER -> c
decodeURIComponent(s) == [i \in 1..Len(s) |-> Unescape(s[i])]
IndexOf(s, c) ==
    IF \E i \in 1..Len(s) : s[i] = c
    THEN CHOOSE i \in 1..Len(s) : s[i] = c /\ \A j \in 1..(i - 1) : s[j] # c
    ELSE 0
Before(s, i) == SubSeq(s, 1, i - 1)
After(s, i) == SubSeq(s, i + 1, Len(s))
RECURSIVE SplitOn(_, _)
SplitOn(s, c) ==
    IF IndexOf(s, c) = 0 THEN <<s>>
    ELSE <<Before(s, IndexOf(s, c))>> \o SplitOn(After(s, IndexOf(s, c)), c)
RawParam(link, name) ==
    LET parts == SplitOn(After(link, IndexOf(link, "?")), "&")
        hits == {i \in 1..Len(parts) : Len(parts[i]) >= 2 /\ parts[i][1] = name /\ parts[i][2] = "="}
    IN  IF hits = {} THEN <<NoValue>>
        ELSE After(parts[CHOOSE i \in hits : \A j \in hits : i <= j], 2)
LinkParam(link, name) == Text(decodeURIComponent(RawParam(link, name)))
Reserved == {":", "/", "?", "=", "&"}
Pieces(s) == {s[i] : i \in 1..Len(s)}
Rendered == links # NoLinks
\* the request URI of line 112, as text
RequestUriText(type) ==
    Text(links.host) \o "/disclosure/" \o Text(props.clientId)
        \o "/request_uri?session_type=" \o type

IsLocal(h) == h[1] = "http" /\ "localhost" \in Pieces(h)
IsRemote(h) == h[1] = "https" /\ SubSeq(h, Len(h) - 2, Len(h)) = <<"wallet-connect", ".", "eu">>

\* C11: the resolved host is fixed by (useLocalWcServer, business, issuance) alone;
\* the eight combinations give eight different literals, among them the three the
\* claim names; the host is local exactly when useLocalWcServer is set.
C11_HostResolution ==
    Rendered =>
        LET u == props.useLocalWcServer
            b == props.business
            i == props.issuance
            h == Text(links.host)
        IN  /\ \A p \in PropsSpace :
                  (p.useLocalWcServer = u /\ p.business = b /\ p.issuance = i)
                      => LinksOf(p).host = links.host
            /\ Cardinality({Text(getDefaultHost(x, y, z)) : x \in BOOLEAN, y \in BOOLEAN, z \in BOOLEAN}) = 8
            /\ (~u /\ ~b /\ ~i) => h = "https://wallet-connect.eu"
            /\ (~u /\ b /\ i) => h = "https://bw.issuance.wallet-connect.eu"
            /\ (u /\ ~b /\ ~i) => h = "http://localhost:3021"
            /\ u => IsLocal(links.host) /\ ~IsRemote(links.host)
            /\ ~u => IsRemote(links.host) /\ ~IsLocal(links.host)

\* a business issuance widget has resolved the remote business issuance host
C11_Witness ==
    /\ Rendered
    /\ ~props.useLocalWcServer /\ props.business /\ props.issuance
    /\ Text(links.host) = "https://bw.issuance.wallet-connect.eu"

\* the two links differ in one piece, the session_type value of the request URI
DifferOnlyInSessionType ==
    /\ Len(links.sameDeviceUl) = Len(links.crossDeviceUl)
    /\ \E i \in 1..Len(links.sameDeviceUl) :
          /\ links.sameDeviceUl[i] = "same_device"
          /\ links.crossDeviceUl[i] = "cross_device"
          /\ \A j \in 1..Len(links.sameDeviceUl) :
                j # i => links.sameDeviceUl[j] = links.crossDeviceUl[j]
\* the request_uri parameter holds no unescaped delimiter and decodes, once, to
\* the request URI
EncodedOnce ==
    /\ Pieces(RawParam(links.sameDeviceUl, "request_uri")) \cap Reserved = {}
    /\ LinkParam(links.sameDeviceUl, "request_uri") = RequestUriText("same_device")
    /\ Pieces(RawParam(links.crossDeviceUl, "request_uri")) \cap Reserved = {}
    /\ LinkParam(links.crossDeviceUl, "request_uri") = RequestUriText("cross_device")
ClientIdParamIsClientId ==
    /\ LinkParam(links.sameDeviceUl, "client_id") = Text(props.clientId) \o ".example.com"
    /\ LinkParam(links.crossDeviceUl, "client_id") = Text(props.clientId) \o ".example.com"
\* the link ends with client_id= and the unencoded {clientId}.example.com
EndsWithClientId(link) ==
    LET tail == <<"&", "client_id", "=">> \o props.clientId \o <<".example.com">>
    IN  SubSeq(link, Len(link) - Len(tail) + 1, Len(link)) = tail

C13_HostIsTheHostProp ==
    Rendered =>
        Text(links.host) = IF props.walletConnectHost # NoValue
                           THEN props.walletConnectHost
                           ELSE "https://wallet-connect.eu"

\* --------------------------------------------------------- injection claims
\* the pending retry timers of handler invocation c
TimersOf(c, pending) == {t \in pending : t.c = c}
\* this step is attempt n of the insertion for invocation c
Attempt(c, n) ==
    \/ n = 0 /\ c \notin fired /\ c \in fired'
    \/ n > 0 /\ [c |-> c, n |-> n] \in retries /\ [c |-> c, n |-> n] \notin retries'
Reachable == element # 0 /\ HasShadowRoot

\* C14: the insertion for a click with a non-empty list is attempted once and
\* retried at most maxRetries times, one timer at a time; an attempt that finds the
\* modal inserts the block and sets no timer; an attempt that does not sets the next
\* timer, and the last one sets none and inserts nothing; every chain ends.
C14_RetryChainEnds ==
    /\ [][\A c \in CallIds, n \in 0..(maxRetries + 1) :
            Attempt(c, n) =>
                /\ n <= maxRetries
                /\ Len(calls[c].val) > 0
                /\ Cardinality(TimersOf(c, retries')) <= 1
                /\ (Reachable /\ shadow.modal) =>
                      TimersOf(c, retries') = {} /\ shadow'.blocks = 1
                /\ (Reachable /\ ~shadow.modal /\ n < maxRetries) =>
                      TimersOf(c, retries') = {[c |-> c, n |-> n + 1]} /\ shadow'.blocks = 0
                /\ (Reachable /\ ~shadow.modal /\ n = maxRetries) =>
                      TimersOf(c, retries') = {} /\ shadow'.blocks = 0
                /\ ~Reachable => TimersOf(c, retries') = {} /\ shadow' = shadow]_vars
    /\ \A c \in CallIds : (c \in fired) ~> (TimersOf(c, retries) = {})

\* the last retry of a chain is pending and the modal has not appeared
C14_Witness ==
    /\ [c |-> 1, n |-> maxRetries] \in retries
    /\ ~shadow.modal
    /\ Reachable

\* C18: the shadow root never holds more than one display block.
C18_AtMostOneBlock ==
    shadow.blocks <= 1

\* the insertions of two handler invocations have both run and one block is there
C18_Witness ==
    /\ fired = {1, 2}
    /\ retries = {}
    /\ shadow.modal
    /\ shadow.blocks = 1

\* ------------------------------------------------- widget claims, continued
\* C15: a request pending at unmount can still succeed and fail; when it settles
\* after the unmount, onSuccess has been called with its payload if it succeeded,
\* and the URL holds no session_token either way.
C15_UnmountCancelsNothing ==
    mounted = "gone" =>
        /\ \A r \in Requests :
              dreqs[r].st = "pending" =>
                  /\ ENABLED DisclosedResolve(r)
                  /\ ENABLED DisclosedReject(r, "Network Error")
        /\ lastEvent.r # 0 =>
              /\ ~Has(Parse(url), "session_token")
              /\ dreqs[lastEvent.r].st = "ok" =>
                    /\ successLog # << >>
                    /\ successLog[Len(successLog)]
                          = [r |-> lastEvent.r, data |-> Payload(dreqs[lastEvent.r].token)]

\* a request has succeeded after the unmount
C15_Witness ==
    /\ mounted = "gone"
    /\ lastEvent.r = 1
    /\ dreqs[1].st = "ok"
    /\ dreqs[1].token = "tok1"
    /\ successLog = <<[r |-> 1, data |-> Payload("tok1")]>>
    /\ url = << >>

\* the widget has rendered its current state
Committed == mounted = "yes" /\ ~dirty

\* C16 as claimed: the output is the placeholder when loading is set, the error
\* message when loading is not set and an error is recorded, the wallet element
\* only when neither holds.
C16_RenderByLoadingAndError ==
    Committed =>
        shown = IF loading THEN "checking"
                ELSE IF error # NoValue THEN "error"
                ELSE "button"

\* C16 amended: the same, a recorded error counting when its message is not empty.
C16_RenderByLoadingAndNonEmptyError ==
    Committed =>
        /\ shown \in {"checking", "error", "button"}
        /\ shown = IF loading THEN "checking"
                   ELSE IF error # NoValue /\ error # "" THEN "error"
                   ELSE "button"

\* the placeholder is displayed while an error is recorded
C16_Witness ==
    /\ Committed
    /\ loading
    /\ error = "Network Error"
    /\ shown = "checking"

\* C17 as claimed: a displayed wallet element has the success and failed listeners
\* once the web component has loaded.
C17_ListenersOnDisplayedElement ==
    (mounted = "yes" /\ shown = "button" /\ loadState = "done") =>
        {<<element, "success">>, <<element, "failed">>} \subseteq listeners

SomeRequestFailed == \E r \in Requests : dreqs[r].st = "failed"

\* C19 as claimed: once a request has failed (with a non-empty message) the recorded
\* error is never cleared and the widget never displays the wallet element again.
C19_ErrorIsSticky ==
    (mounted = "yes" /\ SomeRequestFailed) =>
        /\ Truthy(error)
        /\ ~dirty => shown # "button"

\* C19 amended: the recorded error is never reset to null, and the wallet element
\* is displayed again only after an onSuccess that threw with an empty message
\* has replaced the recorded message.
C19_ErrorNeverNull ==
    (mounted = "yes" /\ SomeRequestFailed) =>
        /\ error # NoValue
        /\ (~dirty /\ shown = "button") =>
              /\ error = ""
              /\ \E r \in Requests : dreqs[r].st = "threw"

\* a request failed, a later one succeeded, and the error is still displayed
C19_Witness ==
    /\ Committed
    /\ Len(dreqs) = 2
    /\ dreqs[1].st = "failed"
    /\ dreqs[2].st = "ok"
    /\ CallsFor({2}) # {}
    /\ error = "Network Error"
    /\ shown = "error"

\* -------------------------------------------------- cache claims, continued
\* C20 as claimed: a cache entry that holds a promise holds one that has not settled.
C20_PromiseEntryIsInFlight ==
    \A k \in Keys :
        credentialsCache[k].kind = "promise" =>
            promises[credentialsCache[k].promise].st = "pending"

====
